---- MODULE Spec2Model ----
(***************************************************************************)
(* batt: boolean expression -> truth table.                                *)
(*                                                                         *)
(* The model follows the Rust sources: token.rs (token kinds and their     *)
(* derived order), parser.rs (the shunting-yard parser with one token of   *)
(* lookahead), boolean_expression.rs (the postfix stack evaluator),        *)
(* bitstring_trait.rs (bit access on fixed-width integers), table_format.rs*)
(* (row printing) and main.rs (the driver loop).                           *)
(*                                                                         *)
(* A span is modelled by the 1-based index of the token in the token       *)
(* stream: it identifies the token the diagnostic points at.               *)
(***************************************************************************)
EXTENDS Integers, Sequences, FiniteSets, TLC

\* ------------------------------------------------------------------ bounds
\* Longest token stream the lexer hands to the parser.
MaxLen == 7
\* Number of distinct identifier texts the input may use.
NumNames == 2
\* Evaluation on its own: most variables and most tokens of an expression.
MaxVars == 2
MaxTreeSize == 5
\* Concurrent evaluation: evaluate calls in flight, most variables and most
\* tokens of the shared expression.
NumCalls == 2
MaxSharedVars == 1
MaxSharedSize == 3
\* BitString on its own: the largest position passed to a method.
MaxBitPos == 9

NameList == <<"A", "B", "C", "D", "E", "F">>
Names == {NameList[n] : n \in 1..NumNames}

\* ------------------------------------------------------------------ token.rs
Operators == {"NOT", "AND", "OR", "XOR"}
BinaryOperators == {"AND", "OR", "XOR"}
Kinds == Operators \cup {"LPAREN", "RPAREN", "IDENT", "Error"}

\* Mutant: the parentheses are declared before the operators.
TokenOrdParenthesesFirst(k) ==
    CASE k = "LPAREN" -> 0
      [] k = "RPAREN" -> 1
      [] k = "NOT" -> 2
      [] k = "AND" -> 3
      [] k = "OR" -> 4
      [] k = "XOR" -> 5
      [] k = "IDENT" -> 6
      [] k = "Error" -> 7

\* #[derive(PartialOrd)] on Token: the order of the variants' discriminants.
TokenOrd(k) ==
    CASE k = "NOT" -> 0
      [] k = "AND" -> 1
      [] k = "OR" -> 2
      [] k = "XOR" -> 3
      [] k = "LPAREN" -> 4
      [] k = "RPAREN" -> 5
      [] k = "IDENT" -> 6
      [] k = "Error" -> 7

is_binary_operator(k) == k \in {"AND", "OR", "XOR"}

\* A lexed token: its kind and, for IDENT, the source text under its span.
Tok(k, s) == [t |-> k, s |-> s]
Tokens == {Tok(k, "") : k \in Kinds \ {"IDENT"}} \cup {Tok("IDENT", n) : n \in Names}
\* What lex.next() / lex.peek() give at the end of the stream (Option::None).
EOF == Tok("EOF", "")

\* ------------------------------------------------------- boolean_expression.rs
BIdent(id) == [k |-> "IDENT", id |-> id, op |-> ""]
BOperator(op) == [k |-> "OPERATOR", id |-> 0, op |-> op]

\* ------------------------------------------------------------------ parser.rs
VARIABLES
    lexed,          \* tokens the lexer has produced so far (next() and peek())
    eof,            \* the lexer has reported the end of the stream
    pos,            \* number of tokens taken by lex.next()
    stack,          \* parse: operator stack of [t: token kind, span]
    res,            \* parse: output accumulator
    variables,      \* parse: variable names in first-occurrence order
    prev_token,     \* parse: kind of the previous token, "None" at the start
    ident_map,      \* Parser.ident_map
    next_ident_id,  \* Parser.next_ident_id
    diags,          \* diagnostics written by report_token_error
    ret,            \* parse's return: "Running", "None" or "Some"
    pc,             \* where the program is
    bound,          \* main: the loop's upper bound, as the i32 it is computed in
    i,              \* main: the loop counter (u128)
    rows,           \* main: the rows printed so far
    bexp,           \* evaluation: the compiled expression
    inputs,         \* evaluation: the assignment of each evaluate call
    estack,         \* evaluation: the operand stack of each evaluate call
    epc,            \* evaluation: index of the next token of each call
    eret,           \* evaluation: return value of each call
    tree,           \* evaluation: the expression tree the sequence encodes
    btype,          \* BitString: the integer type of self
    bself,          \* BitString: the integer the methods are called on
    bcall,          \* BitString: the last call, [op, pos]
    bret            \* BitString: what the last call returned

pvars == <<lexed, eof, pos, stack, res, variables, prev_token, ident_map,
           next_ident_id, diags, ret>>
mvars == <<bound, i, rows>>
evars == <<bexp, inputs, estack, epc, eret, tree>>
bvars == <<btype, bself, bcall, bret>>
vars == <<pvars, pc, mvars, evars, bvars>>

EmptyMap == [n \in {} |-> 0]

\* Parser::new followed by the locals of parse before its loop. peeked tells
\* whether the last loop iteration reached its lex.peek(). next_ident_id is a
\* u32; it stays below the number of identifier tokens, far from 2^32.
NewParse ==
    [stack |-> <<>>, res |-> <<>>, variables |-> <<>>, prev_token |-> "None",
     ident_map |-> EmptyMap, next_ident_id |-> 0, diags |-> <<>>,
     ret |-> "Running", peeked |-> FALSE]

\* Mutant: the diagnostic is written but parse does not return.
ReportAndGoOn(p, span, msg, peeked) ==
    [p EXCEPT !.diags = Append(@, [span |-> span, msg |-> msg]),
              !.peeked = peeked]

\* report_token_error(span, msg); return None
Report(p, span, msg, peeked) ==
    [p EXCEPT !.diags = Append(@, [span |-> span, msg |-> msg]),
              !.ret = "None", !.peeked = peeked]

NoSpan == 0

\* Mutant: the span returned is the current token's, not the next token's.
any_of_matches_current(nxt, nxtSpan, kinds) ==
    IF nxt.t # "EOF" /\ nxt.t \in kinds THEN nxtSpan - 1 ELSE NoSpan

\* any_of_matches_next: the next token's span when its kind is one of kinds.
any_of_matches_next(nxt, nxtSpan, kinds) ==
    IF nxt.t # "EOF" /\ nxt.t \in kinds THEN nxtSpan ELSE NoSpan

\* Mutant: every identifier occurrence is given a new id.
ArmIdentNoLookup(p, tok, span, nxt) ==
    IF any_of_matches_next(nxt, span + 1, {"IDENT", "LPAREN", "NOT"}) # NoSpan
    THEN Report(p, any_of_matches_next(nxt, span + 1, {"IDENT", "LPAREN", "NOT"}),
                "Expected binary operator or right parenthesis.", TRUE)
    ELSE [p EXCEPT !.prev_token = "IDENT",
                   !.ident_map = [n \in DOMAIN p.ident_map \cup {tok.s} |->
                                    IF n = tok.s THEN p.next_ident_id
                                    ELSE p.ident_map[n]],
                   !.variables = Append(@, tok.s),
                   !.next_ident_id = @ + 1,
                   !.res = Append(@, BIdent(p.next_ident_id)),
                   !.peeked = TRUE]

\* Token::IDENT arm.
ArmIdent(p, tok, span, nxt) ==
    IF any_of_matches_next(nxt, span + 1, {"IDENT", "LPAREN", "NOT"}) # NoSpan
    THEN Report(p, any_of_matches_next(nxt, span + 1, {"IDENT", "LPAREN", "NOT"}),
                "Expected binary operator or right parenthesis.", TRUE)
    ELSE LET known == tok.s \in DOMAIN p.ident_map
             map == IF known THEN p.ident_map
                    ELSE [n \in DOMAIN p.ident_map \cup {tok.s} |->
                            IF n = tok.s THEN p.next_ident_id ELSE p.ident_map[n]]
         IN [p EXCEPT !.prev_token = "IDENT",
                      !.ident_map = map,
                      !.variables = IF known THEN @ ELSE Append(@, tok.s),
                      !.next_ident_id = IF known THEN @ ELSE @ + 1,
                      !.res = Append(@, BIdent(map[tok.s])),
                      !.peeked = TRUE]

\* Mutant: the LPAREN is pushed before the next token is checked.
ArmLParenPushFirst(p, tok, span, nxt) ==
    IF any_of_matches_next(nxt, span + 1, {"AND", "OR", "XOR"}) # NoSpan
    THEN Report([p EXCEPT !.stack = Append(@, [t |-> "LPAREN", span |-> span])],
                any_of_matches_next(nxt, span + 1, {"AND", "OR", "XOR"}),
                "Expected parenthesis, variable or unary operator", TRUE)
    ELSE [p EXCEPT !.prev_token = "LPAREN",
                   !.stack = Append(@, [t |-> "LPAREN", span |-> span]),
                   !.peeked = TRUE]

\* Token::LPAREN arm.
ArmLParen(p, tok, span, nxt) ==
    IF any_of_matches_next(nxt, span + 1, {"AND", "OR", "XOR"}) # NoSpan
    THEN Report(p, any_of_matches_next(nxt, span + 1, {"AND", "OR", "XOR"}),
                "Expected parenthesis, variable or unary operator", TRUE)
    ELSE [p EXCEPT !.prev_token = "LPAREN",
                   !.stack = Append(@, [t |-> "LPAREN", span |-> span]),
                   !.peeked = TRUE]

\* Mutant: the LPAREN marker is appended to the output like an operator.
RECURSIVE PopToLParenKept(_, _)
PopToLParenKept(stk, out) ==
    IF stk = <<>> THEN [stack |-> stk, res |-> out, seen_lparen |-> FALSE]
    ELSE LET top == stk[Len(stk)]
             rest == SubSeq(stk, 1, Len(stk) - 1)
         IN IF top.t = "LPAREN"
            THEN [stack |-> rest, res |-> Append(out, BOperator(top.t)),
                  seen_lparen |-> TRUE]
            ELSE PopToLParenKept(rest, Append(out, BOperator(top.t)))

\* The RPAREN arm's loop: pop to the output until an LPAREN is popped.
RECURSIVE PopToLParen(_, _)
PopToLParen(stk, out) ==
    IF stk = <<>> THEN [stack |-> stk, res |-> out, seen_lparen |-> FALSE]
    ELSE LET top == stk[Len(stk)]
             rest == SubSeq(stk, 1, Len(stk) - 1)
         IN IF top.t = "LPAREN"
            THEN [stack |-> rest, res |-> out, seen_lparen |-> TRUE]
            ELSE PopToLParen(rest, Append(out, BOperator(top.t)))

\* Token::RPAREN arm.
ArmRParen(p, tok, span, nxt) ==
    LET r == PopToLParen(p.stack, p.res)
        q == [p EXCEPT !.stack = r.stack, !.res = r.res]
    IN IF ~r.seen_lparen
       THEN Report(q, span, "Unmatched left parenthesis", FALSE)
       ELSE IF any_of_matches_next(nxt, span + 1, {"IDENT", "NOT", "LPAREN"}) # NoSpan
       THEN Report(q, any_of_matches_next(nxt, span + 1, {"IDENT", "NOT", "LPAREN"}),
                   "Expected binary operator or right parenthesis", TRUE)
       ELSE [q EXCEPT !.prev_token = "RPAREN", !.peeked = TRUE]

\* Mutant: an operator of equal precedence is not popped.
PopsBeforeStrict(top, token) == TokenOrd(top) < TokenOrd(token)

\* The comparison that decides a pop in the operator arm: *top <= token.
PopsBefore(top, token) == TokenOrd(top) <= TokenOrd(token)

\* The operator arm's loop.
RECURSIVE PopOperators(_, _, _)
PopOperators(stk, out, token) ==
    IF stk = <<>> \/ token = "NOT" THEN [stack |-> stk, res |-> out]
    ELSE LET top == stk[Len(stk)]
         IN IF PopsBefore(top.t, token)
            THEN PopOperators(SubSeq(stk, 1, Len(stk) - 1),
                              Append(out, BOperator(top.t)), token)
            ELSE [stack |-> stk, res |-> out]

\* Mutant: the end of the input after an operator is not checked.
ArmOperatorNoEndCheck(p, tok, span, nxt) ==
    LET r == PopOperators(p.stack, p.res, tok.t)
        q == [p EXCEPT !.stack = Append(r.stack, [t |-> tok.t, span |-> span]),
                       !.res = r.res]
    IN IF p.prev_token = "None" /\ is_binary_operator(tok.t)
       THEN Report(q, span, "Missing left hand side of binary expression", FALSE)
       ELSE IF any_of_matches_next(nxt, span + 1, {"AND", "OR", "XOR", "RPAREN"}) # NoSpan
       THEN Report(q, any_of_matches_next(nxt, span + 1, {"AND", "OR", "XOR", "RPAREN"}),
                   "Expected variable, left parenthesis or unary operator", TRUE)
       ELSE [q EXCEPT !.prev_token = tok.t, !.peeked = TRUE]

\* Mutant: the next token is checked before the left hand side.
ArmOperatorNextFirst(p, tok, span, nxt) ==
    LET r == PopOperators(p.stack, p.res, tok.t)
        q == [p EXCEPT !.stack = Append(r.stack, [t |-> tok.t, span |-> span]),
                       !.res = r.res]
    IN IF any_of_matches_next(nxt, span + 1, {"AND", "OR", "XOR", "RPAREN"}) # NoSpan
       THEN Report(q, any_of_matches_next(nxt, span + 1, {"AND", "OR", "XOR", "RPAREN"}),
                   "Expected variable, left parenthesis or unary operator", TRUE)
       ELSE IF p.prev_token = "None" /\ is_binary_operator(tok.t)
       THEN Report(q, span, "Missing left hand side of binary expression", TRUE)
       ELSE IF nxt.t = "EOF"
       THEN Report(q, span, "Missing right hand side of binary expression", TRUE)
       ELSE [q EXCEPT !.prev_token = tok.t, !.peeked = TRUE]

\* The `_` arm: NOT, AND, OR, XOR.
ArmOperator(p, tok, span, nxt) ==
    LET r == PopOperators(p.stack, p.res, tok.t)
        q == [p EXCEPT !.stack = Append(r.stack, [t |-> tok.t, span |-> span]),
                       !.res = r.res]
    IN IF p.prev_token = "None" /\ is_binary_operator(tok.t)
       THEN Report(q, span, "Missing left hand side of binary expression", FALSE)
       ELSE IF any_of_matches_next(nxt, span + 1, {"AND", "OR", "XOR", "RPAREN"}) # NoSpan
       THEN Report(q, any_of_matches_next(nxt, span + 1, {"AND", "OR", "XOR", "RPAREN"}),
                   "Expected variable, left parenthesis or unary operator", TRUE)
       ELSE IF nxt.t = "EOF"
       THEN Report(q, span, "Missing right hand side of binary expression", TRUE)
       ELSE [q EXCEPT !.prev_token = tok.t, !.peeked = TRUE]

\* Mutant: an Error token is skipped like whitespace.
ArmErrorSkipped(p, tok, span, nxt) == [p EXCEPT !.peeked = FALSE]

\* token == Token::Error
ArmError(p, tok, span, nxt) == Report(p, span, "Unknown token", FALSE)

\* One iteration of the while-let loop of parse.
ParseToken(p, tok, span, nxt) ==
    CASE tok.t = "Error" -> ArmError(p, tok, span, nxt)
      [] tok.t = "IDENT" -> ArmIdent(p, tok, span, nxt)
      [] tok.t = "LPAREN" -> ArmLParen(p, tok, span, nxt)
      [] tok.t = "RPAREN" -> ArmRParen(p, tok, span, nxt)
      [] OTHER -> ArmOperator(p, tok, span, nxt)

\* Mutant: an LPAREN left on the stack is dropped without a diagnostic.
RECURSIVE DrainLenient(_)
DrainLenient(p) ==
    IF p.stack = <<>> THEN [p EXCEPT !.ret = "Some"]
    ELSE LET top == p.stack[Len(p.stack)]
             q == [p EXCEPT !.stack = SubSeq(@, 1, Len(@) - 1)]
         IN IF top.t = "LPAREN"
            THEN DrainLenient(q)
            ELSE DrainLenient([q EXCEPT !.res = Append(@, BOperator(top.t))])

\* The loop after the tokens: drain the operator stack.
RECURSIVE Drain(_)
Drain(p) ==
    IF p.stack = <<>> THEN [p EXCEPT !.ret = "Some"]
    ELSE LET top == p.stack[Len(p.stack)]
             q == [p EXCEPT !.stack = SubSeq(@, 1, Len(@) - 1)]
         IN IF top.t = "LPAREN"
            THEN Report(q, top.span, "Unmatched right parenthesis", p.peeked)
            ELSE Drain([q EXCEPT !.res = Append(@, BOperator(top.t))])

\* Parser::parse on a whole token stream, as a function of the stream.
RECURSIVE ParseFrom(_, _, _)
ParseFrom(p, toks, k) ==
    IF p.ret # "Running" THEN p
    ELSE IF k > Len(toks) THEN Drain(p)
    ELSE ParseFrom(ParseToken(p, toks[k], k,
                              IF k < Len(toks) THEN toks[k + 1] ELSE EOF),
                   toks, k + 1)

Parse(toks) == ParseFrom(NewParse, toks, 1)

\* ------------------------------------------------------------ bitstring_trait.rs
\* bits::<u128>(): the driver's counter is a u128.
Bits == 128
None == -1

\* Mutant: the shifted value is not masked with 1.
get_bit_unmasked(self, bitpos) ==
    IF bitpos < Bits THEN self \div (2 ^ bitpos) ELSE None

\* BitString::get_bit: Some(bit) when pos < bits, None otherwise.
get_bit(self, bitpos) ==
    IF bitpos < Bits THEN (self \div (2 ^ bitpos)) % 2 ELSE None

\* ------------------------------------------------------- boolean_expression.rs
\* BooleanExpression::new(exp, variable_names)
BooleanExpression(exp, variable_names) ==
    [variable_names |-> variable_names, exp |-> exp]

\* The u8 operators &, | and ^ of the evaluator, bit by bit.
RECURSIVE Bitwise(_, _, _)
Bitwise(op, a, b) ==
    IF a = 0 /\ b = 0 THEN 0
    ELSE LET x == a % 2
             y == b % 2
             z == CASE op = "AND" -> IF x = 1 /\ y = 1 THEN 1 ELSE 0
                    [] op = "OR" -> IF x = 1 \/ y = 1 THEN 1 ELSE 0
                    [] op = "XOR" -> IF x # y THEN 1 ELSE 0
         IN z + 2 * Bitwise(op, a \div 2, b \div 2)

\* ------------------------------------------- bitstring_trait.rs, every width
\* The integer types of one byte that implement BitString, and bits::<T>().
ByteTypes == {"i8", "u8"}
bits(type) == CASE type \in ByteTypes -> 8
Signed(type) == type = "i8"
ValuesOf(type) ==
    IF Signed(type) THEN (0 - 2 ^ (bits(type) - 1))..(2 ^ (bits(type) - 1) - 1)
    ELSE 0..(2 ^ bits(type) - 1)

\* The two's-complement bit pattern of a value, and the value of a pattern.
Pattern(type, v) == v % (2 ^ bits(type))
AsType(type, p) ==
    IF Signed(type) /\ p >= 2 ^ (bits(type) - 1) THEN p - 2 ^ bits(type) ELSE p

\* 1 << pos, !x, and x | y, x & y, x ^ y in $type, for pos < bits.
ShlOne(type, bitpos) == AsType(type, 2 ^ bitpos)
BitNot(type, v) == AsType(type, 2 ^ bits(type) - 1 - Pattern(type, v))
BitOp(type, op, a, b) == AsType(type, Bitwise(op, Pattern(type, a), Pattern(type, b)))

\* get_bit of $type: >> is arithmetic on a signed type, so the quotient
\* rounds down.
get_bit_of(type, self, bitpos) ==
    IF bitpos < bits(type) THEN (self \div (2 ^ bitpos)) % 2 ELSE None

set_bit(type, self, bitpos) ==
    IF bitpos < bits(type)
    THEN [self |-> BitOp(type, "OR", self, ShlOne(type, bitpos)), ret |-> TRUE]
    ELSE [self |-> self, ret |-> FALSE]

\* Mutant: the mask is not complemented.
clear_bit_with_mask(type, self, bitpos) ==
    IF bitpos < bits(type)
    THEN [self |-> BitOp(type, "AND", self, ShlOne(type, bitpos)), ret |-> TRUE]
    ELSE [self |-> self, ret |-> FALSE]

clear_bit(type, self, bitpos) ==
    IF bitpos < bits(type)
    THEN [self |-> BitOp(type, "AND", self, BitNot(type, ShlOne(type, bitpos))),
          ret |-> TRUE]
    ELSE [self |-> self, ret |-> FALSE]

toggle_bit(type, self, bitpos) ==
    IF bitpos < bits(type)
    THEN [self |-> BitOp(type, "XOR", self, ShlOne(type, bitpos)), ret |-> TRUE]
    ELSE [self |-> self, ret |-> FALSE]

clear_string(type, self) == 0

\* Mutant: variable id is read from bit id.
IdentBitPosLsb(nvars, id) == id

\* The position evaluate reads for IDENT(id): variable_names.len() - 1 - id.
IdentBitPos(nvars, id) == nvars - 1 - id

\* An operand stack after stack.pop().unwrap() on an empty Vec, or
\* get_bit(..).unwrap() on None: the thread panics.
Panicked == <<None>>

\* One iteration of evaluate's for loop on operand stack st.
EvalToken(e, token, st, input) ==
    LET n == Len(st)
    IN CASE token.k = "IDENT" ->
              LET b == get_bit(input, IdentBitPos(Len(e.variable_names), token.id))
              IN IF b = None THEN Panicked ELSE Append(st, b)
         [] token.k = "OPERATOR" /\ token.op \in BinaryOperators ->
              IF n < 2 THEN Panicked
              ELSE Append(SubSeq(st, 1, n - 2), Bitwise(token.op, st[n], st[n - 1]))
         [] token.k = "OPERATOR" /\ token.op = "NOT" ->
              IF n < 1 THEN Panicked
              ELSE Append(SubSeq(st, 1, n - 1), IF st[n] = 0 THEN 1 ELSE 0)
         [] OTHER -> st

\* The final stack.pop().unwrap() of evaluate.
EvalResult(st) == IF st = Panicked \/ st = <<>> THEN None ELSE st[Len(st)]

\* BooleanExpression::evaluate run to completion; None when it panics.
RECURSIVE EvalFrom(_, _, _, _)
EvalFrom(e, input, k, st) ==
    IF st = Panicked THEN None
    ELSE IF k > Len(e.exp) THEN EvalResult(st)
    ELSE EvalFrom(e, input, k + 1, EvalToken(e, e.exp[k], st, input))

evaluate(e, input) == EvalFrom(e, input, 1, <<>>)

\* ------------------------------------------------------------ table_format.rs
\* Mutant: column i shows bit i.
ColumnBitPosLsb(number_of_vars, col) == col

\* The position print_evaluation reads for column i: number_of_vars - 1 - i.
ColumnBitPos(number_of_vars, col) == number_of_vars - 1 - col

\* TableFormat::print_evaluation: the bit printed in each variable's column
\* (columns numbered from 1 here, from 0 in enumerate()), then the result.
print_evaluation(e, input, eval_result) ==
    [input |-> input,
     cols |-> [c \in 1..Len(e.variable_names) |->
                 get_bit(input, ColumnBitPos(Len(e.variable_names), c - 1))],
     result |-> eval_result]

\* ------------------------------------------------------------------ main.rs
\* 2 << s in i32 (the literal's type falls back to i32), for 0 <= s < 32.
Shl32(s) ==
    IF s <= 29 THEN 2 ^ (s + 1)
    ELSE IF s = 30 THEN (0 - 2 ^ 30) - 2 ^ 30
    ELSE 0

\* The outcomes of (2 << (number_of_vars - 1)): a checked build panics on the
\* usize underflow and on a shift by 32 or more (Overflow); an unchecked build
\* wraps the subtraction and masks the shift amount to its low 5 bits.
Overflow == [panic |-> TRUE, v |-> 0]
Value(v) == [panic |-> FALSE, v |-> v]
LoopBounds(number_of_vars) ==
    IF number_of_vars = 0 THEN {Overflow, Value(Shl32(31))}
    ELSE IF number_of_vars - 1 >= 32
    THEN {Overflow, Value(Shl32((number_of_vars - 1) % 32))}
    ELSE {Value(Shl32(number_of_vars - 1))}

\* i < (b as u128): a negative i32 is sign-extended to 2^128 + b, above every
\* counter value.
BelowBound(counter, b) == IF b < 0 THEN TRUE ELSE counter < b

\* ------------------------------------------------------------------ the lexer
\* The token at stream position k: the one already produced, or a new one.
LexChoices(lx, atEnd, k) ==
    IF k <= Len(lx) THEN {lx[k]}
    ELSE IF atEnd \/ Len(lx) >= MaxLen THEN {EOF}
    ELSE Tokens \cup {EOF}

\* ------------------------------------------------------------------ actions
PS ==
    [stack |-> stack, res |-> res, variables |-> variables,
     prev_token |-> prev_token, ident_map |-> ident_map,
     next_ident_id |-> next_ident_id, diags |-> diags, ret |-> ret,
     peeked |-> FALSE]

SetPS(n) ==
    /\ stack' = n.stack
    /\ res' = n.res
    /\ variables' = n.variables
    /\ prev_token' = n.prev_token
    /\ ident_map' = n.ident_map
    /\ next_ident_id' = n.next_ident_id
    /\ diags' = n.diags
    /\ ret' = n.ret

\* if let Some(bexp) = parser.parse() { ... }
AfterParse(n) ==
    /\ pc' = CASE n.ret = "Running" -> "parse"
               [] n.ret = "Some" -> "main"
               [] n.ret = "None" -> "exit"
    /\ bexp' = IF n.ret = "Some" THEN BooleanExpression(n.res, n.variables)
               ELSE bexp

\* One iteration of the parse loop on a token of the given kinds.
ParseStep(kinds) ==
    /\ pc = "parse"
    /\ \E tok \in LexChoices(lexed, eof, pos + 1) :
         /\ tok.t \in kinds
         /\ LET lx == IF pos + 1 <= Len(lexed) THEN lexed ELSE Append(lexed, tok)
            IN \E nxt \in LexChoices(lx, eof, pos + 2) :
                 LET n == ParseToken(PS, tok, pos + 1, nxt)
                 IN /\ SetPS(n)
                    /\ pos' = pos + 1
                    /\ lexed' = IF n.peeked /\ nxt # EOF /\ pos + 2 > Len(lx)
                                THEN Append(lx, nxt) ELSE lx
                    /\ eof' = (eof \/ (n.peeked /\ nxt = EOF))
                    /\ AfterParse(n)
    /\ UNCHANGED <<mvars, inputs, estack, epc, eret, tree, bvars>>

ParseIdent == ParseStep({"IDENT"})
ParseLParen == ParseStep({"LPAREN"})
ParseRParen == ParseStep({"RPAREN"})
ParseOperator == ParseStep(Operators)
ParseError == ParseStep({"Error"})

\* lex.next() is None: the drain loop and the return.
ParseEnd ==
    /\ pc = "parse"
    /\ EOF \in LexChoices(lexed, eof, pos + 1)
    /\ LET n == Drain(PS)
       IN SetPS(n) /\ AfterParse(n)
    /\ eof' = TRUE
    /\ UNCHANGED <<lexed, pos, mvars, inputs, estack, epc, eret, tree, bvars>>

\* main: the header and the loop's range.
MainHeader ==
    /\ pc = "main"
    /\ \E b \in LoopBounds(Len(bexp.variable_names)) :
         IF b.panic
         THEN pc' = "panic" /\ UNCHANGED bound
         ELSE pc' = "loop" /\ bound' = b.v
    /\ i' = 0
    /\ UNCHANGED <<pvars, rows, evars, bvars>>

\* main: one iteration of the for loop.
MainRow ==
    /\ pc = "loop"
    /\ BelowBound(i, bound)
    /\ LET r == evaluate(bexp, i)
       IN IF r = None
          THEN pc' = "panic" /\ UNCHANGED <<i, rows>>
          ELSE /\ rows' = Append(rows, print_evaluation(bexp, i, r))
               /\ i' = i + 1
               /\ UNCHANGED pc
    /\ UNCHANGED <<pvars, bound, evars, bvars>>

\* main: the range is exhausted.
MainExit ==
    /\ pc = "loop"
    /\ ~BelowBound(i, bound)
    /\ pc' = "exit"
    /\ UNCHANGED <<pvars, mvars, evars, bvars>>

NoExpression == BooleanExpression(<<>>, <<>>)

\* No BitString method has been called.
NoCall == [op |-> "none", pos |-> 0]
NoBitString ==
    /\ btype = "u8"
    /\ bself = 0
    /\ bcall = NoCall
    /\ bret = None

Init ==
    /\ lexed = <<>>
    /\ eof = FALSE
    /\ pos = 0
    /\ stack = NewParse.stack
    /\ res = NewParse.res
    /\ variables = NewParse.variables
    /\ prev_token = NewParse.prev_token
    /\ ident_map = NewParse.ident_map
    /\ next_ident_id = NewParse.next_ident_id
    /\ diags = NewParse.diags
    /\ ret = NewParse.ret
    /\ pc = "parse"
    /\ bound = 0
    /\ i = 0
    /\ rows = <<>>
    /\ bexp = NoExpression
    /\ inputs = <<>>
    /\ estack = <<>>
    /\ epc = <<>>
    /\ eret = <<>>
    /\ tree = <<>>
    /\ NoBitString

Next ==
    \/ ParseIdent
    \/ ParseLParen
    \/ ParseRParen
    \/ ParseOperator
    \/ ParseError
    \/ ParseEnd
    \/ MainHeader
    \/ MainRow
    \/ MainExit

Spec == Init /\ [][Next]_vars

\* ------------------------------------------------------------ evaluation alone
\* Expression trees <<operator, id, left, right>> with a given number of
\* nodes over variables 0..nvars-1, and their post-order traversals: the
\* valid postfix sequences.
Leaf(id) == <<"IDENT", id, <<>>, <<>>>>
RECURSIVE TreesOfSize(_, _)
TreesOfSize(n, nvars) ==
    IF n = 1 THEN {Leaf(id) : id \in 0..(nvars - 1)}
    ELSE {<<"NOT", 0, a, <<>>>> : a \in TreesOfSize(n - 1, nvars)}
         \cup UNION {{<<op, 0, a, b>> : op \in BinaryOperators,
                                         a \in TreesOfSize(m, nvars),
                                         b \in TreesOfSize(n - 1 - m, nvars)}
                     : m \in 1..(n - 2)}

TreesUpTo(n, nvars) == UNION {TreesOfSize(m, nvars) : m \in 1..n}

RECURSIVE PostOrder(_)
PostOrder(t) ==
    CASE t[1] = "IDENT" -> <<BIdent(t[2])>>
      [] t[1] = "NOT" -> Append(PostOrder(t[3]), BOperator("NOT"))
      [] OTHER -> Append(PostOrder(t[3]) \o PostOrder(t[4]), BOperator(t[1]))

\* The truth value of a tree when variable id has the value of bit
\* (nvars - 1 - id) of counter c.
RECURSIVE TreeValue(_, _, _)
TreeValue(t, c, nvars) ==
    CASE t[1] = "IDENT" -> (c \div (2 ^ (nvars - 1 - t[2]))) % 2
      [] t[1] = "NOT" -> 1 - TreeValue(t[3], c, nvars)
      [] t[1] = "AND" -> TreeValue(t[3], c, nvars) * TreeValue(t[4], c, nvars)
      [] t[1] = "OR" -> IF TreeValue(t[3], c, nvars) + TreeValue(t[4], c, nvars) > 0
                        THEN 1 ELSE 0
      [] t[1] = "XOR" -> (TreeValue(t[3], c, nvars) + TreeValue(t[4], c, nvars)) % 2

\* eret of an evaluate call that has not returned.
Pending == 0 - 2

\* calls evaluate calls on one compiled expression of at most size tokens,
\* each with its own assignment and a fresh operand stack (Vec::new()).
EvalInit(calls, size, maxvars) ==
    /\ \E nvars \in 1..maxvars :
         /\ tree \in TreesUpTo(size, nvars)
         /\ bexp = BooleanExpression(PostOrder(tree), SubSeq(NameList, 1, nvars))
         /\ inputs \in [1..calls -> 0..(2 ^ nvars - 1)]
    /\ estack = [c \in 1..calls |-> <<>>]
    /\ epc = [c \in 1..calls |-> 1]
    /\ eret = [c \in 1..calls |-> Pending]
    /\ pc = "eval"
    /\ lexed = <<>>
    /\ eof = FALSE
    /\ pos = 0
    /\ stack = NewParse.stack
    /\ res = NewParse.res
    /\ variables = NewParse.variables
    /\ prev_token = NewParse.prev_token
    /\ ident_map = NewParse.ident_map
    /\ next_ident_id = NewParse.next_ident_id
    /\ diags = NewParse.diags
    /\ ret = NewParse.ret
    /\ bound = 0
    /\ i = 0
    /\ rows = <<>>
    /\ NoBitString

\* Mutant: every call works on one stack, that of the first call.
StackShared(c) == 1

\* The operand stack an evaluate call works on: its own local Vec.
StackOf(c) == c

\* One iteration of the for loop of evaluate call c, on a token of the kinds.
EvalStep(c, kinds) ==
    /\ pc = "eval"
    /\ c \in DOMAIN epc
    /\ epc[c] <= Len(bexp.exp)
    /\ estack[StackOf(c)] # Panicked
    /\ LET token == bexp.exp[epc[c]]
       IN /\ (IF token.k = "IDENT" THEN "IDENT" ELSE token.op) \in kinds
          /\ estack' = [estack EXCEPT ![StackOf(c)] =
                           EvalToken(bexp, token, estack[StackOf(c)], inputs[c])]
    /\ epc' = [epc EXCEPT ![c] = @ + 1]
    /\ UNCHANGED <<pvars, pc, mvars, bexp, inputs, eret, tree, bvars>>

EvalIdent(c) == EvalStep(c, {"IDENT"})
EvalBinary(c) == EvalStep(c, BinaryOperators)
EvalNot(c) == EvalStep(c, {"NOT"})

\* The end of evaluate call c: the final pop.
EvalReturn(c) ==
    /\ pc = "eval"
    /\ c \in DOMAIN epc
    /\ epc[c] = Len(bexp.exp) + 1
    /\ eret[c] = Pending
    /\ eret' = [eret EXCEPT ![c] = EvalResult(estack[StackOf(c)])]
    /\ estack' = [estack EXCEPT ![StackOf(c)] =
                     IF @ = Panicked \/ @ = <<>> THEN Panicked
                     ELSE SubSeq(@, 1, Len(@) - 1)]
    /\ UNCHANGED <<pvars, pc, mvars, bexp, inputs, epc, tree, bvars>>

\* One evaluate call on a valid postfix sequence.
InitEval == EvalInit(1, MaxTreeSize, MaxVars)
NextEval ==
    \/ EvalIdent(1)
    \/ EvalBinary(1)
    \/ EvalNot(1)
    \/ EvalReturn(1)
SpecEval == InitEval /\ [][NextEval]_vars

\* Several evaluate calls on one shared expression, their steps interleaved.
InitShared == EvalInit(NumCalls, MaxSharedSize, MaxSharedVars)
NextShared ==
    \E c \in 1..NumCalls :
        \/ EvalIdent(c)
        \/ EvalBinary(c)
        \/ EvalNot(c)
        \/ EvalReturn(c)
SpecShared == InitShared /\ [][NextShared]_vars

\* --------------------------------------------- evaluation of a parsed input
\* evaluate is called on the expression parse returned, with any u128 whose
\* bits above the variables' are arbitrary (one such bit is enumerated).
CallEvaluate ==
    /\ pc = "main"
    /\ pc' = "eval"
    /\ inputs' \in [{1} -> 0..(2 ^ (Len(bexp.variable_names) + 1) - 1)]
    /\ estack' = <<<<>>>>
    /\ epc' = <<1>>
    /\ eret' = <<Pending>>
    /\ UNCHANGED <<pvars, mvars, bexp, tree, bvars>>

NextCompiled ==
    \/ ParseIdent
    \/ ParseLParen
    \/ ParseRParen
    \/ ParseOperator
    \/ ParseError
    \/ ParseEnd
    \/ CallEvaluate
    \/ EvalIdent(1)
    \/ EvalBinary(1)
    \/ EvalNot(1)
    \/ EvalReturn(1)
SpecCompiled == Init /\ [][NextCompiled]_vars

\* ------------------------------------------------------- BitString alone
\* Calls of the BitString methods on one integer of a one-byte type.
GetBit ==
    /\ pc = "bits"
    /\ \E p \in 0..MaxBitPos :
         /\ bcall' = [op |-> "get_bit", pos |-> p]
         /\ bret' = get_bit_of(btype, bself, p)
    /\ UNCHANGED <<pvars, pc, mvars, evars, btype, bself>>

\* A call of a method that takes &mut self and a position.
Mutate(op, result) ==
    /\ pc = "bits"
    /\ bcall' = [op |-> op, pos |-> result.pos]
    /\ bself' = result.self
    /\ bret' = result.ret
    /\ UNCHANGED <<pvars, pc, mvars, evars, btype>>

SetBit ==
    \E p \in 0..MaxBitPos :
        Mutate("set_bit", [pos |-> p] @@ set_bit(btype, bself, p))
ClearBit ==
    \E p \in 0..MaxBitPos :
        Mutate("clear_bit", [pos |-> p] @@ clear_bit(btype, bself, p))
ToggleBit ==
    \E p \in 0..MaxBitPos :
        Mutate("toggle_bit", [pos |-> p] @@ toggle_bit(btype, bself, p))

ClearString ==
    /\ pc = "bits"
    /\ bcall' = [op |-> "clear_string", pos |-> 0]
    /\ bself' = clear_string(btype, bself)
    /\ UNCHANGED <<pvars, pc, mvars, evars, btype, bret>>

InitBits ==
    /\ btype \in ByteTypes
    /\ bself \in ValuesOf(btype)
    /\ bcall = NoCall
    /\ bret = None
    /\ pc = "bits"
    /\ lexed = <<>>
    /\ eof = FALSE
    /\ pos = 0
    /\ stack = NewParse.stack
    /\ res = NewParse.res
    /\ variables = NewParse.variables
    /\ prev_token = NewParse.prev_token
    /\ ident_map = NewParse.ident_map
    /\ next_ident_id = NewParse.next_ident_id
    /\ diags = NewParse.diags
    /\ ret = NewParse.ret
    /\ bound = 0
    /\ i = 0
    /\ rows = <<>>
    /\ bexp = NoExpression
    /\ inputs = <<>>
    /\ estack = <<>>
    /\ epc = <<>>
    /\ eret = <<>>
    /\ tree = <<>>

NextBits ==
    \/ GetBit
    \/ SetBit
    \/ ClearBit
    \/ ToggleBit
    \/ ClearString
SpecBits == InitBits /\ [][NextBits]_vars

\* ------------------------------------------------------------------ reference
\* Operand-stack depth after scanning a postfix sequence: IDENT pushes one,
\* NOT needs one operand, AND/OR/XOR need two; Underflow when an operator
\* lacks operands.
Underflow == 0 - 1
RECURSIVE PostfixDepth(_, _, _)
PostfixDepth(seq, k, depth) ==
    IF k > Len(seq) THEN depth
    ELSE LET need == IF seq[k].k = "IDENT" THEN 0
                     ELSE IF seq[k].op = "NOT" THEN 1 ELSE 2
         IN IF depth < need THEN Underflow
            ELSE PostfixDepth(seq, k + 1,
                              IF need = 0 THEN depth + 1 ELSE depth - need + 1)

ValidPostfix(seq) == PostfixDepth(seq, 1, 0) = 1

\* Identifier texts of a token stream in first-occurrence order.
RECURSIVE FirstOccurrences(_, _, _)
FirstOccurrences(toks, k, seen) ==
    IF k > Len(toks) THEN seen
    ELSE FirstOccurrences(toks, k + 1,
            IF toks[k].t = "IDENT" /\ \A j \in 1..Len(seen) : seen[j] # toks[k].s
            THEN Append(seen, toks[k].s) ELSE seen)

IndexOf(seq, x) == CHOOSE j \in 1..Len(seq) : seq[j] = x

\* The infix grammar read by recursive descent, giving the post-order
\* traversal of the expression tree:
\*   level 3: e3 ::= e2 (XOR e2)*      level 2: e2 ::= e1 (OR e1)*
\*   level 1: e1 ::= e0 (AND e0)*      level 0: e0 ::= NOT e0 | IDENT | ( e3 )
LevelOperator(lvl) == CASE lvl = 1 -> "AND" [] lvl = 2 -> "OR" [] lvl = 3 -> "XOR"
RefFail == [ok |-> FALSE, post |-> <<>>, k |-> 0]
RECURSIVE RefLevel(_, _, _, _)
RECURSIVE RefTail(_, _, _, _)
RefLevel(toks, names, k, lvl) ==
    IF lvl = 0
    THEN IF k > Len(toks) THEN RefFail
         ELSE CASE toks[k].t = "NOT" ->
                     LET u == RefLevel(toks, names, k + 1, 0)
                     IN IF u.ok THEN [u EXCEPT !.post = Append(@, BOperator("NOT"))]
                        ELSE RefFail
                [] toks[k].t = "IDENT" ->
                     [ok |-> TRUE, post |-> <<BIdent(IndexOf(names, toks[k].s) - 1)>>,
                      k |-> k + 1]
                [] toks[k].t = "LPAREN" ->
                     LET e == RefLevel(toks, names, k + 1, 3)
                     IN IF e.ok /\ e.k <= Len(toks) /\ toks[e.k].t = "RPAREN"
                        THEN [e EXCEPT !.k = @ + 1]
                        ELSE RefFail
                [] OTHER -> RefFail
    ELSE LET l == RefLevel(toks, names, k, lvl - 1)
         IN IF l.ok THEN RefTail(toks, names, l, lvl) ELSE RefFail
RefTail(toks, names, l, lvl) ==
    IF l.k <= Len(toks) /\ toks[l.k].t = LevelOperator(lvl)
    THEN LET r == RefLevel(toks, names, l.k + 1, lvl - 1)
         IN IF r.ok
            THEN RefTail(toks, names,
                         [ok |-> TRUE,
                          post |-> Append(l.post \o r.post, BOperator(LevelOperator(lvl))),
                          k |-> r.k],
                         lvl)
            ELSE RefFail
    ELSE l

RefParse(toks) ==
    LET r == RefLevel(toks, FirstOccurrences(toks, 1, <<>>), 1, 3)
    IN IF r.ok /\ r.k = Len(toks) + 1 THEN r ELSE RefFail

\* The token stream has an empty parenthesis pair.
HasEmptyGroup(toks) ==
    \E k \in 1..(Len(toks) - 1) : toks[k].t = "LPAREN" /\ toks[k + 1].t = "RPAREN"

\* ------------------------------------------------------------------ claims

\* C1: whenever parse returns an expression, its postfix sequence is a valid
\* postfix encoding: no operator lacks operands and exactly one value is left.
C1_ValidPostfix == ret = "Some" => ValidPostfix(bexp.exp)

\* The same, for the inputs without an empty parenthesis pair and with at
\* least one token.
NonEmptyInputValidPostfix ==
    (ret = "Some" /\ lexed # <<>> /\ ~HasEmptyGroup(lexed)) => ValidPostfix(bexp.exp)

\* C2: whenever parse returns an expression, its postfix sequence is the
\* post-order traversal of the tree the infix grammar reads from the input.
C2_PostOrderOfInfix ==
    ret = "Some" => (RefParse(lexed).ok /\ bexp.exp = RefParse(lexed).post)

\* The same, for the inputs without an empty parenthesis pair and with at
\* least one token; and the parser accepts every input of the grammar.
NonEmptyInputPostOrder ==
    /\ (ret = "Some" /\ lexed # <<>> /\ ~HasEmptyGroup(lexed)) =>
          (RefParse(lexed).ok /\ bexp.exp = RefParse(lexed).post)
    /\ (ret = "None" /\ eof) => ~RefParse(lexed).ok

\* C3: on a valid postfix sequence over N variables and a counter below 2^N,
\* evaluate returns the truth value of the encoded tree with variable id read
\* from bit N-1-id of the counter.
C3_EvaluateIsTruthValue ==
    \A c \in DOMAIN eret :
        eret[c] # Pending =>
            eret[c] = TreeValue(tree, inputs[c], Len(bexp.variable_names))

\* "A && B" with counter 0b10 has returned 0.
C3_Witness ==
    /\ tree = <<"AND", 0, Leaf(0), Leaf(1)>>
    /\ Len(bexp.variable_names) = 2
    /\ inputs[1] = 2
    /\ eret[1] = 0

\* 2^N rows, one per counter value 0 .. 2^N - 1, in increasing order.
AllRows(nvars) ==
    /\ Len(rows) = 2 ^ nvars
    /\ \A k \in 1..Len(rows) : rows[k].input = k - 1

\* C4: for every accepted input with N distinct variables the driver loop runs
\* to its end, its bound is 2^N, and it prints the rows of the counters
\* 0 .. 2^N - 1, each once, in increasing order.
C4_ExactlyTwoToTheNRows ==
    ret = "Some" =>
        /\ pc # "panic"
        /\ pc = "loop" => bound = 2 ^ Len(bexp.variable_names)
        /\ pc = "exit" => AllRows(Len(bexp.variable_names))

\* The same, for the accepted inputs whose output is a valid postfix sequence.
ValidPostfixAllRows ==
    (ret = "Some" /\ ValidPostfix(bexp.exp)) =>
        /\ pc # "panic"
        /\ pc = "loop" => bound = 2 ^ Len(bexp.variable_names)
        /\ pc = "exit" => AllRows(Len(bexp.variable_names))

LP == Tok("LPAREN", "")
RP == Tok("RPAREN", "")
Wrap(toks) == <<LP>> \o toks \o <<RP>>
SameExpression(p, q) ==
    /\ p.ret = "Some"
    /\ q.ret = "Some"
    /\ p.res = q.res
    /\ p.variables = q.variables

\* C5: for every accepted input E, "(E)" and "((E))" are accepted with the
\* postfix sequence and the variable list of E; an accepted input that is a
\* parenthesised accepted input has the output of the inner input; and no
\* parenthesis is a token of an output.
C5_ParenthesesErased ==
    ret = "Some" =>
        LET whole == Parse(lexed)
            inner == IF Len(lexed) >= 2 /\ lexed[1] = LP /\ lexed[Len(lexed)] = RP
                     THEN Parse(SubSeq(lexed, 2, Len(lexed) - 1))
                     ELSE NewParse
        IN /\ SameExpression(Parse(Wrap(lexed)), whole)
           /\ SameExpression(Parse(Wrap(Wrap(lexed))), whole)
           /\ bexp = BooleanExpression(whole.res, whole.variables)
           /\ \A k \in 1..Len(bexp.exp) :
                 bexp.exp[k].k = "OPERATOR" => bexp.exp[k].op \in Operators
           /\ inner.ret = "Some" => SameExpression(inner, whole)

\* "(A) && (B)" has been accepted with the output of "A && B".
C5_Witness ==
    /\ ret = "Some"
    /\ lexed = <<LP, Tok("IDENT", "A"), RP, Tok("AND", ""), LP, Tok("IDENT", "B"), RP>>
    /\ bexp.exp = <<BIdent(0), BIdent(1), BOperator("AND")>>

\* The IDENT entries of a sequence of records, in order.
RECURSIVE Only(_, _, _)
Only(seq, k, kind) ==
    IF k > Len(seq) THEN <<>>
    ELSE IF seq[k][kind] = "IDENT"
    THEN <<seq[k]>> \o Only(seq, k + 1, kind)
    ELSE Only(seq, k + 1, kind)

\* C6: in a returned expression the ids are exactly 0 .. variable_count - 1,
\* the variable list is the identifier texts in first-occurrence order without
\* duplicates, and the k-th Identifier of the output carries the id whose
\* variable is the text of the k-th identifier of the input.
C6_FirstOccurrenceIds ==
    ret = "Some" =>
        LET names == bexp.variable_names
            ids == Only(bexp.exp, 1, "k")
            texts == Only(lexed, 1, "t")
        IN /\ {ids[k].id : k \in 1..Len(ids)} = 0..(Len(names) - 1)
           /\ names = FirstOccurrences(lexed, 1, <<>>)
           /\ \A a, b \in 1..Len(names) : names[a] = names[b] => a = b
           /\ Len(ids) = Len(texts)
           /\ \A k \in 1..Len(ids) : names[ids[k].id + 1] = texts[k].s

\* "A && B || !A" has been accepted: id 0 is used twice.
C6_Witness ==
    /\ ret = "Some"
    /\ lexed = <<Tok("IDENT", "A"), Tok("AND", ""), Tok("IDENT", "B"), Tok("OR", ""),
                 Tok("NOT", ""), Tok("IDENT", "A")>>
    /\ bexp.exp = <<BIdent(0), BIdent(1), BOperator("AND"), BIdent(0),
                    BOperator("NOT"), BOperator("OR")>>
    /\ bexp.variable_names = <<"A", "B">>

\* C7: in every printed row and for every variable id, the bit printed in the
\* column of id and the bit evaluate pushes for Identifier(id) are both bit
\* N-1-id of the row's counter.
C7_ColumnsAgreeWithEvaluate ==
    \A r \in 1..Len(rows) :
        LET nvars == Len(bexp.variable_names)
        IN /\ Len(rows[r].cols) = nvars
           /\ \A id \in 0..(nvars - 1) :
                /\ rows[r].cols[id + 1] = (rows[r].input \div (2 ^ (nvars - 1 - id))) % 2
                /\ rows[r].cols[id + 1] =
                      evaluate(BooleanExpression(<<BIdent(id)>>, bexp.variable_names),
                               rows[r].input)

\* A row of a two-variable table whose two columns differ has been printed.
C7_Witness ==
    /\ Len(bexp.variable_names) = 2
    /\ \E r \in 1..Len(rows) :
         rows[r].input = 2 /\ rows[r].cols = <<1, 0>>

C8_Counts ==
    /\ ret = "Running" => (diags = <<>> /\ pc = "parse")
    /\ ret = "Some" => diags = <<>>
    /\ ret = "None" => (Len(diags) = 1 /\ bexp = NoExpression /\ pc = "exit")
C8_Stops ==
    diags # <<>> => (pos' = pos /\ lexed' = lexed /\ diags' = diags /\ ret' = ret
                     /\ bexp' = bexp)

\* C8: a run of parse reports no diagnostic when it returns an expression and
\* exactly one when it returns none; after a diagnostic no token is consumed,
\* nothing more is reported and no expression is returned.
C8_FailFast == [](C8_Counts) /\ [][C8_Stops]_vars

\* "A B" has been rejected with its one diagnostic.
C8_Witness ==
    /\ ret = "None"
    /\ lexed = <<Tok("IDENT", "A"), Tok("IDENT", "B")>>
    /\ Len(diags) = 1

\* C9: interleaved evaluate calls on one expression each return what an
\* isolated evaluation with the same assignment returns, none pops an empty
\* stack, calls with equal assignments return equal results, and the
\* expression stays the post-order of its tree over its variable list.
C9_IndependentEvaluations ==
    /\ \A c \in DOMAIN eret :
         /\ estack[c] # Panicked
         /\ eret[c] # Pending => eret[c] = evaluate(bexp, inputs[c])
    /\ \A c, d \in DOMAIN eret :
         (inputs[c] = inputs[d] /\ eret[c] # Pending /\ eret[d] # Pending)
            => eret[c] = eret[d]
    /\ bexp.exp = PostOrder(tree)
    /\ bexp.variable_names = SubSeq(NameList, 1, Len(bexp.variable_names))

\* Two calls with different assignments have returned different results, the
\* second one having started before the first returned.
C9_Witness ==
    /\ DOMAIN eret = 1..NumCalls
    /\ eret[1] = 1
    /\ eret[2] = 0
    /\ inputs[1] # inputs[2]
    /\ Len(bexp.exp) = 3
    /\ bexp.exp[3].op = "AND"

\* A step that consumes an IDENT, or a RPAREN while an LPAREN is on the stack.
C10_Step ==
    (/\ pos' = pos + 1
     /\ \/ lexed'[pos'].t = "IDENT"
        \/ /\ lexed'[pos'].t = "RPAREN"
           /\ \E k \in 1..Len(stack) : stack[k].t = "LPAREN")
    => IF Len(lexed') > pos' /\ lexed'[pos' + 1].t \in {"IDENT", "NOT", "LPAREN"}
       THEN /\ ret' = "None"
            /\ bexp' = NoExpression
            /\ Len(diags') = 1
            /\ diags'[1].span = pos' + 1
       ELSE (\/ Len(lexed') = pos' /\ eof'
             \/ /\ Len(lexed') > pos'
                /\ lexed'[pos' + 1].t \in {"AND", "OR", "XOR", "RPAREN"})
            => (ret' = "Running" /\ diags' = <<>>)

\* C10: when parse consumes an IDENT, or a RPAREN with an LPAREN on the
\* operator stack, and the next token is IDENT, NOT or LPAREN, parse returns
\* none with its diagnostic at the next token's span; when the next token is
\* AND, OR, XOR or RPAREN, or there is none, parse goes on without diagnostic.
C10_OperandAdjacency == [][C10_Step]_vars

\* "(A) B" has been rejected at the span of B.
C10_Witness ==
    /\ lexed = <<LP, Tok("IDENT", "A"), RP, Tok("IDENT", "B")>>
    /\ pos = 3
    /\ ret = "None"
    /\ diags[1].span = 4

\* The step consumes a token of one of the kinds.
Consumes(kinds) == pos' = pos + 1 /\ lexed'[pos'].t \in kinds
\* After the step, the token following the consumed one has been peeked.
HasNext == Len(lexed') > pos'
NextKind == lexed'[pos' + 1].t
\* After the step, the lexer has said that no token follows the consumed one.
NoNext == Len(lexed') = pos' /\ eof'
\* The step ends parse with one diagnostic, at the span, and no expression.
FailsAt(span) ==
    /\ ret' = "None"
    /\ bexp' = NoExpression
    /\ Len(diags') = 1
    /\ diags'[1].span = span
GoesOn == ret' = "Running" /\ diags' = <<>>

MissingLhs == "Missing left hand side of binary expression"
MissingRhs == "Missing right hand side of binary expression"

C11_Step ==
    (Consumes(Operators) /\ ~(pos = 0 /\ lexed'[pos'].t \in BinaryOperators))
    => IF HasNext /\ NextKind \in {"AND", "OR", "XOR", "RPAREN"}
       THEN FailsAt(pos' + 1)
       ELSE IF NoNext
       THEN FailsAt(pos') /\ diags'[1].msg = MissingRhs
       ELSE HasNext /\ GoesOn
C11_NoOperatorLast ==
    (ret = "Some" /\ lexed # <<>>) => lexed[Len(lexed)].t \notin Operators

\* C11: when parse consumes an operator other than a binary operator in first
\* position, it fails at the next token's span if that token is AND, OR, XOR
\* or RPAREN, fails with the missing-right-hand-side diagnostic at the
\* operator's span if no token follows, and goes on otherwise; no accepted
\* input ends with an operator.
C11_AfterOperator == [](C11_NoOperatorLast) /\ [][C11_Step]_vars

\* "A &&" has been rejected at the span of the operator.
C11_Witness ==
    /\ lexed = <<Tok("IDENT", "A"), Tok("AND", "")>>
    /\ eof
    /\ ret = "None"
    /\ diags = <<[span |-> 2, msg |-> MissingRhs]>>

\* Spans of the LPAREN markers of an operator stack.
LParenSpans(stk) == {stk[k].span : k \in {j \in 1..Len(stk) : stk[j].t = "LPAREN"}}
Max(set) == CHOOSE x \in set : \A y \in set : y <= x
\* Number of tokens of a kind among the first n tokens.
RECURSIVE Count(_, _, _)
Count(toks, n, kind) ==
    IF n = 0 THEN 0
    ELSE Count(toks, n - 1, kind) + (IF toks[n].t = kind THEN 1 ELSE 0)
Balanced(toks) ==
    /\ Count(toks, Len(toks), "LPAREN") = Count(toks, Len(toks), "RPAREN")
    /\ \A n \in 0..Len(toks) : Count(toks, n, "RPAREN") <= Count(toks, n, "LPAREN")
\* The step is the end of the input: the drain loop and the return.
EndOfInput == pc = "parse" /\ pos' = pos /\ ret' # "Running"

C12_Step ==
    /\ (Consumes({"RPAREN"}) /\ LParenSpans(stack) = {}) => FailsAt(pos')
    /\ (EndOfInput /\ LParenSpans(stack) # {}) => FailsAt(Max(LParenSpans(stack)))
C12_Balanced == ret = "Some" => Balanced(lexed)

\* C12: a RPAREN consumed while no LPAREN is on the operator stack makes
\* parse fail at the RPAREN's span; an LPAREN on the stack at the end of the
\* input makes parse fail at the span of the last opened LPAREN still open;
\* every accepted input has balanced parentheses.
C12_ParenthesisMatching == [](C12_Balanced) /\ [][C12_Step]_vars

\* "(A && B" has been rejected at the span of its LPAREN.
C12_Witness ==
    /\ lexed = <<LP, Tok("IDENT", "A"), Tok("AND", ""), Tok("IDENT", "B")>>
    /\ eof
    /\ ret = "None"
    /\ diags[1].span = 1

C13_Step ==
    (pos = 0 /\ Consumes(BinaryOperators))
    => (FailsAt(1) /\ diags'[1].msg = MissingLhs)
C13_OnlyFirstBinary ==
    \A d \in 1..Len(diags) :
        diags[d].msg = MissingLhs =>
            (diags[d].span = 1 /\ lexed[1].t \in BinaryOperators)

\* C13: a binary operator as first token makes parse fail with the
\* missing-left-hand-side diagnostic at its span, whatever follows it; that
\* diagnostic is reported for no other token.
C13_MissingLeftHandSide == [](C13_OnlyFirstBinary) /\ [][C13_Step]_vars

\* "||" as first token has been rejected.
C13_Witness ==
    /\ pos = 1
    /\ lexed[1].t = "OR"
    /\ diags = <<[span |-> 1, msg |-> MissingLhs]>>

C14_Step ==
    (Consumes({"LPAREN"}) /\ HasNext /\ NextKind \in {"AND", "OR", "XOR"})
    => (FailsAt(pos' + 1) /\ stack' = stack)

\* C14: when parse consumes an LPAREN and the next token is AND, OR or XOR,
\* parse fails at the next token's span and the LPAREN has not been pushed.
C14_BinaryAfterLParen == [][C14_Step]_vars

\* "A && ( ^" has been rejected at the span of the XOR.
C14_Witness ==
    /\ lexed = <<Tok("IDENT", "A"), Tok("AND", ""), LP, Tok("XOR", "")>>
    /\ ret = "None"
    /\ diags[1].span = 4
    /\ Len(stack) = 1

C15_Step == Consumes({"Error"}) => (FailsAt(pos') /\ diags'[1].msg = "Unknown token")
C15_Rejected ==
    /\ ret = "Some" => \A k \in 1..Len(lexed) : lexed[k].t # "Error"
    /\ \A d \in 1..Len(diags) :
         (diags[d].span <= Len(lexed) /\ lexed[diags[d].span].t = "Error")
            => (diags[d].msg = "Unknown token" /\ diags[d].span = pos)

\* C15: no token stream with an Error token is accepted; consuming an Error
\* token makes parse fail with "Unknown token" at its span; no other
\* diagnostic points at an Error token, so an Error token that is only the
\* lookahead fails no check.
C15_ErrorToken == [](C15_Rejected) /\ [][C15_Step]_vars

\* "A && $" has been rejected at the span of the Error token.
C15_Witness ==
    /\ lexed = <<Tok("IDENT", "A"), Tok("AND", ""), Tok("Error", "")>>
    /\ diags = <<[span |-> 3, msg |-> "Unknown token"]>>

\* The precedence values: NOT binds tightest, XOR loosest.
Precedence(op) ==
    CASE op = "NOT" -> 0 [] op = "AND" -> 1 [] op = "OR" -> 2 [] op = "XOR" -> 3
\* The top m entries of the stack are operators that an incoming op pops.
TopPopped(stk, m, op) ==
    \A j \in (Len(stk) - m + 1)..Len(stk) :
        stk[j].t \in Operators /\ Precedence(stk[j].t) <= Precedence(op)
\* How many entries an incoming binary operator pops: the longest such top.
PopCount(stk, op) ==
    CHOOSE m \in 0..Len(stk) :
        /\ TopPopped(stk, m, op)
        /\ \A n \in (m + 1)..Len(stk) : ~TopPopped(stk, n, op)

C17_Step ==
    /\ Consumes({"NOT"}) =>
          /\ res' = res
          /\ stack' = Append(stack, [t |-> "NOT", span |-> pos'])
    /\ Consumes(BinaryOperators) =>
          LET op == lexed'[pos'].t
              m == PopCount(stack, op)
          IN /\ stack' = Append(SubSeq(stack, 1, Len(stack) - m),
                                [t |-> op, span |-> pos'])
             /\ res' = res \o [j \in 1..m |-> BOperator(stack[Len(stack) - j + 1].t)]

\* C17: consuming NOT leaves the output unchanged and appends NOT to the
\* operator stack, whatever is on top; consuming AND, OR or XOR pops to the
\* output, top first, the operators on top of the stack whose precedence value
\* is at most the token's, and then pushes the token.
C17_OperatorStackEffect == [][C17_Step]_vars

\* "!!A && B" has been read up to B: the AND has popped both NOTs.
C17_Witness ==
    /\ pos = 4
    /\ lexed = <<Tok("NOT", ""), Tok("NOT", ""), Tok("IDENT", "A"), Tok("AND", ""),
                 Tok("IDENT", "B")>>
    /\ res = <<BIdent(0), BOperator("NOT"), BOperator("NOT")>>
    /\ stack = <<[t |-> "AND", span |-> 4]>>

C18_Kinds ==
    /\ \A k \in 1..Len(stack) : stack[k].t \in Operators \cup {"LPAREN"}
    /\ \A k \in 1..Len(res) : res[k].k = "OPERATOR" => res[k].op \in Operators
    /\ \A k \in 1..Len(bexp.exp) :
         bexp.exp[k].k = "OPERATOR" => bexp.exp[k].op \in Operators
C18_Step ==
    /\ Consumes(Operators) => LParenSpans(stack') = LParenSpans(stack)
    /\ LParenSpans(stack) \ LParenSpans(stack') # {} =>
          /\ LParenSpans(stack) \ LParenSpans(stack') = {Max(LParenSpans(stack))}
          /\ \/ Consumes({"RPAREN"})
             \/ EndOfInput /\ FailsAt(Max(LParenSpans(stack)))

\* C18: the operator stack holds only NOT, AND, OR, XOR and LPAREN entries and
\* every OPERATOR of the output is NOT, AND, OR or XOR; an operator step
\* removes no LPAREN from the stack, and an LPAREN leaves the stack only, the
\* last opened first, when a RPAREN is consumed or when it is reported at the
\* end of the input.
C18_StackAndOutputKinds == [](C18_Kinds) /\ [][C18_Step]_vars

\* "(A && B" has been read up to B: the AND was pushed above the LPAREN.
C18_Witness ==
    /\ pos = 3
    /\ stack = <<[t |-> "LPAREN", span |-> 1], [t |-> "AND", span |-> 3]>>
    /\ res = <<BIdent(0)>>

\* The width of each modelled type, and bit k of a value's representation.
WidthOf(type) == CASE type = "i8" -> 8 [] type = "u8" -> 8
BitAt(v, k) == ((v + 2 ^ WidthOf(btype)) \div (2 ^ k)) % 2
OtherBitsKept(p) ==
    \A k \in (0..(WidthOf(btype) - 1)) \ {p} : BitAt(bself', k) = BitAt(bself, k)
C16_Mutator(bit) ==
    IF bcall'.pos < WidthOf(btype)
    THEN /\ bret' = TRUE
         /\ bself' \in ValuesOf(btype)
         /\ BitAt(bself', bcall'.pos) = bit
         /\ OtherBitsKept(bcall'.pos)
    ELSE bret' = FALSE /\ bself' = bself
C16_Step ==
    CASE bcall'.op = "get_bit" ->
           /\ bself' = bself
           /\ bret' = IF bcall'.pos < WidthOf(btype) THEN BitAt(bself, bcall'.pos)
                      ELSE None
      [] bcall'.op = "set_bit" -> C16_Mutator(1)
      [] bcall'.op = "clear_bit" -> C16_Mutator(0)
      [] bcall'.op = "toggle_bit" -> C16_Mutator(1 - BitAt(bself, bcall'.pos))
      [] bcall'.op = "clear_string" ->
           \A k \in 0..(WidthOf(btype) - 1) : BitAt(bself', k) = 0
      [] OTHER -> FALSE

\* C16: on an integer of width W, get_bit(pos) returns bit pos when pos < W
\* and None when pos >= W; set_bit, clear_bit and toggle_bit return true when
\* pos < W and make bit pos 1, 0 or its complement, every other bit kept, and
\* return false when pos >= W, the value kept; clear_string zeroes every bit.
C16_BitStringContract == [][C16_Step]_vars

\* clear_bit(7) on the i8 -1 has left 127, and the position W was refused.
C16_Witness ==
    /\ btype = "i8"
    /\ bself = 127
    /\ bcall = [op |-> "clear_bit", pos |-> 8]
    /\ bret = FALSE

\* C19: while evaluate runs on an expression the parser returned, with any
\* assignment, every value on the operand stack is 0 or 1, and a value it
\* returns is 0 or 1; it returns none (the thread panics on an empty stack)
\* only when the expression is not a valid postfix sequence.
C19_OperandsAreBits ==
    pc = "eval" =>
        /\ estack[1] = Panicked \/ \A k \in 1..Len(estack[1]) : estack[1][k] \in {0, 1}
        /\ eret[1] \in {Pending, None, 0, 1}
        /\ eret[1] = None => ~ValidPostfix(bexp.exp)

\* "A ^ !B" on the assignment 7, whose bit 2 belongs to no variable, after
\* the two operands have been pushed.
C19_Witness ==
    /\ pc = "eval"
    /\ bexp.exp = <<BIdent(0), BIdent(1), BOperator("NOT"), BOperator("XOR")>>
    /\ inputs[1] = 7
    /\ epc[1] = 3
    /\ estack[1] = <<1, 1>>

====
